---- MODULE Spec2Model ----
(***************************************************************************)
(* A model of packages/client/src/createTRPCClient.ts: the request         *)
(* executor, the cancellable request built on it, subscriptionOnce with    *)
(* its 408 reconnect, and the subscription loop with backoff retry.        *)
(*                                                                         *)
(* JavaScript runs every callback to completion, so one action is one      *)
(* synchronous run of code: a caller's call, the continuation after an     *)
(* await, a promise callback, or a timer callback.  Caller code (cancel,   *)
(* unsubscribe) may run between any two such runs, and also inside a hook  *)
(* the client calls synchronously (opts.onSuccess, opts.onError, onData,   *)
(* onError).  Hooks are taken not to throw.                                *)
(*                                                                         *)
(* An optional value (undefined / null in the source) is the empty tuple   *)
(* None, a present value v is the one-element tuple Some(v).               *)
(***************************************************************************)
EXTENDS Integers, Sequences, FiniteSets, TLC

VARIABLES
  AC,              \* this.AC: whether an AbortController class is configured
  opts,            \* this.opts: which global hooks are configured
  requestCounter,  \* the module-level request counter
  reqs,            \* the Cancellable Requests created by request(), in order
  onces,           \* the subscriptionOnce invocations, in order
  sub,             \* the closure state of the one subscription() loop
  ev               \* what the last run of code called, in order

vars == <<AC, opts, requestCounter, reqs, onces, sub, ev>>

\* ---------------------------------------------------------------- bounds

\* At most this many requests are issued in one behaviour.
MaxReq == 3

\* The transport answers a success with data 1..MaxData.
MaxData == 2

\* At most this many query / mutation calls are made by the caller.
MaxCalls == 1

\* The backoff is followed up to this many consecutive failed cycles.
MaxAttempt == 6

\* ---------------------------------------------------------------- values

None == <<>>

Some(v) == <<v>>

\* The value null where the source tells it from undefined (an input).
Null == <<"null", "null">>

Data == 1 .. MaxData

\* The path of the subscription procedure and of the caller's calls.
SubPath == "poll"

CallPath == "getUser"

\* options.initialInput of the subscription loop.
InitialInput == Some(0)

\* The input the caller passes to query / mutation.
CallInputs == {Some(1)}

ProcedureType == {"query", "mutation", "subscription"}

\* The inputs a request is built for: undefined, null, a value.
BuilderInputs == {None, Null, Some(1)}

\* ---------------------------------------------------------------- envelopes

SuccessEnvelope(d) ==
  [ok |-> TRUE, data |-> Some(d), statusCode |-> None, error |-> None]

\* A failure envelope: top is the envelope's own statusCode field, code the
\* statusCode inside its error payload.
FailureEnvelope(top, code) ==
  [ok |-> FALSE, data |-> None, statusCode |-> top,
   error |-> Some([message |-> "conflict", statusCode |-> code])]

Envelopes ==
  {SuccessEnvelope(d) : d \in Data}
    \cup {FailureEnvelope(Some(408), None),
          FailureEnvelope(None, Some(408)),
          FailureEnvelope(None, Some(409))}

\* What the transport can do with one request: answer with a JSON body that
\* is an envelope, answer with a body that does not parse or that
\* transformer.deserialize throws on, or make fetch throw (a network
\* failure, or the abort of a raised signal).
JsonAnswer(e) == [kind |-> "json", body |-> Some(e)]

BadJsonAnswer == [kind |-> "badjson", body |-> None]

ThrowAnswer == [kind |-> "throw", body |-> None]

AbortAnswer == [kind |-> "abort", body |-> None]

Answers(q) ==
  {JsonAnswer(e) : e \in Envelopes}
    \cup {BadJsonAnswer, ThrowAnswer}
    \cup (IF q.signal = "aborted" THEN {AbortAnswer} ELSE {})

\* ---------------------------------------------------------------- errors

\* A constructor that never derives shape from the envelope.
TRPCClientErrorNoShape(message, o) ==
  [message |-> message,
   res |-> o.res,
   json |-> o.json,
   originalError |-> o.originalError,
   shape |-> None]

TRPCClientError(message, o) ==
  [message |-> message,
   res |-> o.res,
   json |-> o.json,
   originalError |-> o.originalError,
   shape |-> IF o.json = None THEN None ELSE o.json[1].error]

\* The message of the exception the transport raised.
OriginalError(a) ==
  CASE a.kind = "throw" -> "Network request failed"
    [] a.kind = "abort" -> "Aborted"
    [] OTHER -> "Unexpected token"

\* ---------------------------------------------------------------- executor

\* An executor that calls opts.onSuccess before it tests json.ok.
executeRequestHookBeforeTest(a) ==
  IF a.kind = "json"
    THEN LET json == a.body[1] IN
      IF json.ok
        THEN [ok |-> TRUE, data |-> json.data, error |-> None,
              hooks |-> IF opts.onSuccess THEN <<"opts.onSuccess">> ELSE <<>>]
        ELSE [ok |-> FALSE, data |-> None,
              error |-> Some(TRPCClientError(json.error[1].message,
                          [json |-> Some(json), res |-> Some("res"),
                           originalError |-> None])),
              hooks |-> IF opts.onSuccess THEN <<"opts.onSuccess">> ELSE <<>>]
    ELSE [ok |-> FALSE, data |-> None,
          error |-> Some(TRPCClientError(OriginalError(a),
                      [originalError |-> Some(OriginalError(a)),
                       res |-> IF a.kind = "badjson" THEN Some("res") ELSE None,
                       json |-> None])),
          hooks |-> IF opts.onError THEN <<"opts.onError">> ELSE <<>>]

\* executeRequest after the transport has answered with a: the tagged result
\* it returns and the global hooks it calls on the way.
executeRequest(a) ==
  IF a.kind = "json"
    THEN LET json == a.body[1] IN
      IF json.ok
        THEN [ok |-> TRUE, data |-> json.data, error |-> None,
              hooks |-> IF opts.onSuccess THEN <<"opts.onSuccess">> ELSE <<>>]
        ELSE [ok |-> FALSE, data |-> None,
              error |-> Some(TRPCClientError(json.error[1].message,
                          [json |-> Some(json), res |-> Some("res"),
                           originalError |-> None])),
              hooks |-> <<>>]
    ELSE [ok |-> FALSE, data |-> None,
          error |-> Some(TRPCClientError(OriginalError(a),
                      [originalError |-> Some(OriginalError(a)),
                       res |-> IF a.kind = "badjson" THEN Some("res") ELSE None,
                       json |-> None])),
          hooks |-> IF opts.onError THEN <<"opts.onError">> ELSE <<>>]

\* ---------------------------------------------------------------- request builder

\* this.transformer.serialize, a hook of the caller: its result is written
\* as the application of the hook to its argument.
serialize(data) == <<"serialize", data>>

\* serializeInput: undefined is passed through, every other input (null
\* too) goes through the transformer.
serializeInput(input) ==
  IF input # None
    THEN serialize(input)
    ELSE input

\* JSON.stringify of a value, and of the object {input: v}; a member whose
\* value is undefined is left out of the text.
JSONstringify(v) == <<"JSON", v>>

JSONstringifyObject(v) ==
  IF v = None
    THEN <<"JSON", [members |-> <<>>]>>
    ELSE <<"JSON", [members |-> <<"input", v>>]>>

encodeURIComponent(text) == <<"encodeURIComponent", text>>

\* `${url}/${path}` followed by the query string, if any.
Url(path, query) == [base |-> "url", path |-> path, query |-> query]

\* reqOptsMap[type](): the method, the url and the body of the request.
reqOptsMap(type, path, input) ==
  CASE type = "query" ->
         [method |-> "GET",
          body |-> None,
          url |-> Url(path,
                      IF input # None /\ input # Null
                        THEN Some(<<"input",
                                    encodeURIComponent(
                                      JSONstringify(serializeInput(input)))>>)
                        ELSE None)]
    [] type = "mutation" ->
         [method |-> "POST",
          body |-> Some(JSONstringifyObject(serializeInput(input))),
          url |-> Url(path, None)]
    [] type = "subscription" ->
         [method |-> "PATCH",
          body |-> Some(JSONstringifyObject(serializeInput(input))),
          url |-> Url(path, None)]

\* ---------------------------------------------------------------- store

\* The synchronous code of the client is written as operators from a store
\* (the mutable state a run of code touches) to the store it leaves.
Store == [reqs |-> reqs, onces |-> onces, sub |-> sub,
          requestCounter |-> requestCounter, ev |-> <<>>]

\* A subscriptionOnce invocation is live while its exec awaits a request or
\* the loop still refers to its promise; a request is live while the caller
\* holds its promise (query, mutation), while it has not settled, or while a
\* live subscriptionOnce refers to it.  No code can reach the others again:
\* they are garbage, and every garbage object is kept as one fixed record.
LiveOnces(S) ==
  {s \in 1 .. Len(S.onces) :
     \/ S.onces[s].pc = "await"
     \/ s = S.sub.currentPromise
     \/ s = S.sub.awaiting}

LiveRequests(S) ==
  {r \in 1 .. Len(S.reqs) :
     \/ S.reqs[r].type # "subscription"
     \/ S.reqs[r].pc # "settled"
     \/ \E s \in LiveOnces(S) : S.onces[s].currentRequest = r}

NoPromise == [state |-> "collected", data |-> None, error |-> None]

DeadRequest ==
  [type |-> "subscription", path |-> SubPath, input |-> None,
   reqOpts |-> reqOptsMap("subscription", SubPath, None),
   signal |-> "none", raised |-> 0, aborted |-> FALSE, settled |-> TRUE,
   pc |-> "collected", answer |-> None, result |-> None,
   promise |-> NoPromise]

DeadOnce ==
  [path |-> SubPath, input |-> None, stopped |-> TRUE, currentRequest |-> 0,
   pc |-> "collected", promise |-> NoPromise]

Commit(S) ==
  /\ reqs' = [r \in 1 .. Len(S.reqs) |->
                IF r \in LiveRequests(S) THEN S.reqs[r] ELSE DeadRequest]
  /\ onces' = [s \in 1 .. Len(S.onces) |->
                 IF s \in LiveOnces(S) THEN S.onces[s] ELSE DeadOnce]
  /\ sub' = S.sub
  /\ requestCounter' = S.requestCounter
  /\ ev' = S.ev

\* An entry of ev: the operation called and the request it concerns (0: none).
Event(op, id) == [op |-> op, id |-> id]

Emit(S, e) == [S EXCEPT !.ev = Append(@, e)]

\* The one element of a one-element set.  The({F(x) : x \in {e}}) is F(e)
\* with e evaluated once.
The(set) == CHOOSE x \in set : TRUE

Called(op) == \E i \in 1 .. Len(ev) : ev[i].op = op

CalledOn(op, id) == \E i \in 1 .. Len(ev) : ev[i] = Event(op, id)

\* ---------------------------------------------------------------- request

\* ac.abort(): raises the signal if it is not raised yet (a raised signal
\* stays raised and dispatches no second abort event).
abort(q) ==
  IF q.signal = "idle"
    THEN [q EXCEPT !.signal = "aborted", !.raised = @ + 1]
    ELSE q

\* cancel() without the settled test.
cancelUnguarded(q) == abort([q EXCEPT !.aborted = TRUE])

\* cancel() that marks the request aborted and forgets ac.abort().
cancelWithoutAbort(q) ==
  IF ~q.settled
    THEN [q EXCEPT !.aborted = TRUE]
    ELSE q

\* responsePromise.cancel
cancel(q) ==
  IF ~q.settled
    THEN abort([q EXCEPT !.aborted = TRUE])
    ELSE q

\* A call of the cancel() of request r.
cancelRequest(S, r) ==
  The({IF q.raised # S.reqs[r].raised
         THEN Emit(Emit([S EXCEPT !.reqs[r] = q], Event("cancel", r)),
                   Event("abort", r))
         ELSE Emit([S EXCEPT !.reqs[r] = q], Event("cancel", r)) :
       q \in {cancel(S.reqs[r])}})

\* request({type, input, path}): the request is built, fetch is called, and
\* the promise with its cancel() is returned.
NewRequest(type, path, input) ==
  [type |-> type, path |-> path, input |-> input,
   reqOpts |-> reqOptsMap(type, path, input),
   signal |-> IF AC THEN "idle" ELSE "none",
   raised |-> 0,
   aborted |-> FALSE,
   settled |-> FALSE,
   pc |-> "fetching",
   answer |-> None,
   result |-> None,
   promise |-> [state |-> "pending", data |-> None, error |-> None]]

request(S, type, path, input) ==
  Emit([S EXCEPT !.requestCounter = @ + 1,
                 !.reqs = Append(@, NewRequest(type, path, input))],
       Event("fetch", Len(S.reqs) + 1))

\* A .then callback that sets the settled flag on the success path only.
settleFlagOnSuccess(q) ==
  LET res == q.result[1] IN
  [q EXCEPT !.settled = res.ok,
            !.pc = "settled",
            !.promise = IF res.ok
                          THEN [state |-> "resolved", data |-> res.data,
                                error |-> None]
                          ELSE [state |-> "rejected", data |-> None,
                                error |-> res.error]]

\* The .then callback of request(): the settled flag and the settlement.
settle(q) ==
  LET res == q.result[1] IN
  [q EXCEPT !.settled = TRUE,
            !.pc = "settled",
            !.promise = IF res.ok
                          THEN [state |-> "resolved", data |-> res.data,
                                error |-> None]
                          ELSE [state |-> "rejected", data |-> None,
                                error |-> res.error]]

\* ---------------------------------------------------------------- subscriptionOnce

NewOnce(path, input) ==
  [path |-> path, input |-> input,
   stopped |-> FALSE,
   currentRequest |-> 0,
   pc |-> "new",
   promise |-> [state |-> "pending", data |-> None, error |-> None]]

\* An exec without the stopped test.
onceExecUnchecked(S, s) ==
  The({[T EXCEPT !.onces[s].currentRequest = Len(T.reqs),
                 !.onces[s].pc = "await"] :
       T \in {request(S, "subscription", S.onces[s].path,
                      S.onces[s].input)}})

\* The inner exec of subscriptionOnce s: nothing when stopped, else one
\* subscription request, which it then awaits.
onceExec(S, s) ==
  IF S.onces[s].stopped
    THEN [S EXCEPT !.onces[s].pc = "returned"]
    ELSE The({[T EXCEPT !.onces[s].currentRequest = Len(T.reqs),
                        !.onces[s].pc = "await"] :
              T \in {request(S, "subscription", S.onces[s].path,
                             S.onces[s].input)}})

\* subscriptionOnce(path, input): a new promise whose executor runs exec().
subscriptionOnce(S, path, input) ==
  The({onceExec(T, Len(T.onces)) :
       T \in {[S EXCEPT !.onces = Append(@, NewOnce(path, input))]}})

\* promise.cancel of subscriptionOnce s (clearTimeout(nextTry) clears a
\* timer that is never set).
onceCancel(S, s) ==
  The({IF T.onces[s].currentRequest # 0
         THEN cancelRequest(T, T.onces[s].currentRequest)
         ELSE T :
       T \in {[S EXCEPT !.onces[s].stopped = TRUE]}})

\* err.json?.statusCode === 408
isReconnect(err) ==
  /\ err.json # None
  /\ err.json[1].statusCode = Some(408)

\* The continuation of exec in subscriptionOnce s once the awaited request
\* has settled.
onceContinue(S, s) ==
  LET q == S.reqs[S.onces[s].currentRequest] IN
  IF q.promise.state = "resolved"
    THEN [S EXCEPT !.onces[s].pc = "returned",
                   !.onces[s].promise = q.promise]
    ELSE IF isReconnect(q.promise.error[1])
      THEN onceExec(S, s)
      ELSE [S EXCEPT !.onces[s].pc = "returned",
                     !.onces[s].promise = q.promise]

\* ---------------------------------------------------------------- subscription

retryDelay(attemptIndex) ==
  IF attemptIndex = 0
    THEN 0
    ELSE IF 1000 * 2 ^ attemptIndex < 30000
      THEN 1000 * 2 ^ attemptIndex
      ELSE 30000

\* opts.nextInput, a function of the caller: the cursor it computes is
\* written as the application of the function to the data received.
nextInput(res) == <<"nextInput", res>>

\* unsubscribe()
unsubscribe(S) ==
  The({[(IF T.sub.currentPromise # 0
           THEN onceCancel(T, T.sub.currentPromise)
           ELSE T) EXCEPT !.sub.currentPromise = 0] :
       T \in {[S EXCEPT !.sub.stopped = TRUE]}})

\* exec(input) of the loop, up to its await.
subExec(S, input) ==
  The({[T EXCEPT !.sub.currentPromise = Len(T.onces),
                 !.sub.awaiting = Len(T.onces),
                 !.sub.input = input,
                 !.sub.pc = "await"] :
       T \in {subscriptionOnce(S, S.sub.path, input)}})

\* What a hook of the caller does while it runs.
hookRun(S, act) ==
  IF act = "unsubscribe"
    THEN The({unsubscribe(T) : T \in {Emit(S, Event("unsubscribe", 0))}})
    ELSE S

\* A continuation that starts the next cycle twice.
subSuccessForks(S, act) ==
  The({subExec(subExec(U, nextInput(S.onces[S.sub.awaiting].promise.data)),
               nextInput(S.onces[S.sub.awaiting].promise.data)) :
       U \in {hookRun(Emit([S EXCEPT !.sub.attemptIndex = 0],
                           Event("onData", 0)), act)}})

\* A continuation that polls again with the input of the cycle that ended.
subSuccessSameInput(S, act) ==
  The({subExec(U, S.sub.input) :
       U \in {hookRun(Emit([S EXCEPT !.sub.attemptIndex = 0],
                           Event("onData", 0)), act)}})

\* A continuation that leaves attemptIndex as it is.
subSuccessKeepsAttempt(S, act) ==
  The({subExec(U, nextInput(S.onces[S.sub.awaiting].promise.data)) :
       U \in {hookRun(Emit(S, Event("onData", 0)), act)}})

\* The continuation of exec after the awaited subscriptionOnce resolved.
subSuccess(S, act) ==
  The({subExec(U, nextInput(S.onces[S.sub.awaiting].promise.data)) :
       U \in {hookRun(Emit([S EXCEPT !.sub.attemptIndex = 0],
                           Event("onData", 0)), act)}})

\* A catch that gives up once a retry has already failed.
subFailureGivesUp(S, act) ==
  IF S.sub.stopped \/ S.sub.attemptIndex >= 1
    THEN [S EXCEPT !.sub.pc = "done", !.sub.awaiting = 0]
    ELSE The({[T EXCEPT !.sub.attemptIndex = @ + 1,
                        !.sub.delay = retryDelay(T.sub.attemptIndex + 1),
                        !.sub.awaiting = 0,
                        !.sub.pc = "timer"] :
              T \in {hookRun(Emit(S, Event("onError", 0)), act)}})

\* A catch without the stopped test.
subFailureIgnoresStopped(S, act) ==
  The({[T EXCEPT !.sub.attemptIndex = @ + 1,
                 !.sub.delay = retryDelay(T.sub.attemptIndex + 1),
                 !.sub.awaiting = 0,
                 !.sub.pc = "timer"] :
       T \in {hookRun(Emit(S, Event("onError", 0)), act)}})

\* A catch that computes the delay before it increments attemptIndex.
subFailureDelayBeforeIncrement(S, act) ==
  IF S.sub.stopped
    THEN [S EXCEPT !.sub.pc = "done", !.sub.awaiting = 0]
    ELSE The({[T EXCEPT !.sub.attemptIndex = @ + 1,
                        !.sub.delay = retryDelay(T.sub.attemptIndex),
                        !.sub.awaiting = 0,
                        !.sub.pc = "timer"] :
              T \in {hookRun(Emit(S, Event("onError", 0)), act)}})

\* The catch of exec after the awaited subscriptionOnce rejected.
subFailure(S, act) ==
  IF S.sub.stopped
    THEN [S EXCEPT !.sub.pc = "done", !.sub.awaiting = 0]
    ELSE The({[T EXCEPT !.sub.attemptIndex = @ + 1,
                        !.sub.delay = retryDelay(T.sub.attemptIndex + 1),
                        !.sub.awaiting = 0,
                        !.sub.pc = "timer"] :
              T \in {hookRun(Emit(S, Event("onError", 0)), act)}})

\* ---------------------------------------------------------------- actions

Init ==
  /\ AC \in BOOLEAN
  /\ opts \in [onSuccess : BOOLEAN, onError : BOOLEAN]
  /\ requestCounter = 0
  /\ reqs = <<>>
  /\ onces = <<>>
  /\ sub = [pc |-> "idle", path |-> SubPath, stopped |-> FALSE,
            currentPromise |-> 0, awaiting |-> 0, attemptIndex |-> 0,
            input |-> InitialInput, delay |-> 0]
  /\ ev = <<>>

Config == UNCHANGED <<AC, opts>>

DirectCalls == {r \in 1 .. Len(reqs) : reqs[r].type # "subscription"}

\* The caller calls query(path, input) or mutation(path, input).  Calls and
\* the subscription loop share no state but the request counter, so a
\* behaviour holds either the caller's calls or the loop, not both.
Call(type, input) ==
  /\ sub.pc = "idle"
  /\ Len(reqs) < MaxReq
  /\ Cardinality(DirectCalls) < MaxCalls
  /\ \E S \in {request(Store, type, CallPath, input)} : Commit(S)
  /\ Config

\* The transport completes the HTTP exchange of request r (fetch and the
\* reading of the body), or fails it.
TransportAnswer(r, a) ==
  /\ reqs[r].pc = "fetching"
  /\ \E S \in {[Store EXCEPT !.reqs[r].pc = "answered",
                             !.reqs[r].answer = Some(a)]} : Commit(S)
  /\ Config

\* The global hook that executeRequest calls for request r may itself call
\* the cancel() the caller holds, or the unsubscribe of the loop.
HookActs(r, hooks) ==
  IF hooks = <<>>
    THEN {"none"}
    ELSE {"none"}
           \cup (IF reqs[r].type # "subscription" THEN {"cancel"} ELSE {})
           \cup (IF reqs[r].type = "subscription" /\ sub.pc # "idle"
                   THEN {"unsubscribe"} ELSE {})

\* The calls of the hooks, in order.
EmitHooks(S, hooks, r) ==
  [S EXCEPT !.ev = @ \o [i \in 1 .. Len(hooks) |-> Event(hooks[i], r)]]

\* An executor whose catch does not cover the reading of the body: the
\* exception leaves executeRequest and its .then callback never runs.
ExecuteReturnEscapes(r) ==
  /\ reqs[r].pc = "answered"
  /\ \E res \in {executeRequest(reqs[r].answer[1])} :
     \E S \in {IF reqs[r].answer[1].kind = "badjson"
                THEN [Store EXCEPT !.reqs[r].pc = "threw"]
                ELSE [EmitHooks(Store, res.hooks, r) EXCEPT
                        !.reqs[r].pc = "returned",
                        !.reqs[r].result =
                           Some([ok |-> res.ok, data |-> res.data,
                                 error |-> res.error])]} :
       Commit(S)
  /\ Config

\* executeRequest of request r resumes after its awaits and returns.
ExecuteReturn(r) ==
  /\ reqs[r].pc = "answered"
  /\ \E res \in {executeRequest(reqs[r].answer[1])} :
     \E act \in HookActs(r, res.hooks) :
     \E S \in {EmitHooks(Store, res.hooks, r)} :
     \E T \in {CASE act = "cancel" -> cancelRequest(S, r)
                [] act = "unsubscribe" -> hookRun(S, act)
                [] OTHER -> S} :
     \E U \in {[T EXCEPT !.reqs[r].pc = "returned",
                         !.reqs[r].result =
                            Some([ok |-> res.ok, data |-> res.data,
                                  error |-> res.error])]} :
       Commit(U)
  /\ Config

\* The .then callback of request(): request r settles.
Settle(r) ==
  /\ reqs[r].pc = "returned"
  /\ \E q \in {settle(reqs[r])} :
     \E S \in {Emit([Store EXCEPT !.reqs[r] = q],
                    Event(IF q.promise.state = "resolved" THEN "resolve"
                          ELSE "reject", r))} :
       Commit(S)
  /\ Config

\* The caller calls cancel() on the promise of its query or mutation r.
Cancel(r) ==
  /\ r \in DirectCalls
  /\ \E S \in {cancelRequest(Store, r)} : Commit(S)
  /\ Config

\* The caller calls subscription(path, opts).
Subscribe ==
  /\ sub.pc = "idle"
  /\ reqs = <<>>
  /\ \E S \in {subExec(Store, InitialInput)} : Commit(S)
  /\ Config

\* subscriptionOnce s resumes after its awaited request settled.
OnceContinue(s) ==
  /\ onces[s].pc = "await"
  /\ reqs[onces[s].currentRequest].pc = "settled"
  /\ \E S \in {onceContinue(Store, s)} :
     /\ (Len(S.reqs) > Len(reqs) => Len(S.reqs) <= MaxReq)
     /\ Commit(S)
  /\ Config

\* The loop resumes after its awaited subscriptionOnce settled.
SubContinue ==
  /\ sub.pc = "await"
  /\ onces[sub.awaiting].promise.state # "pending"
  /\ \E act \in {"none", "unsubscribe"} :
     \E S \in {IF onces[sub.awaiting].promise.state = "resolved"
                  THEN subSuccess(Store, act)
                  ELSE subFailure(Store, act)} :
       /\ (Len(S.reqs) > Len(reqs) => Len(S.reqs) <= MaxReq)
       /\ (act = "unsubscribe" => S.ev # <<>>)
       /\ Commit(S)
  /\ Config

\* The retry timer of the loop fires.
TimerFire ==
  /\ sub.pc = "timer"
  /\ Len(reqs) < MaxReq
  /\ \E S \in {subExec(Emit(Store, Event("timer", 0)), sub.input)} : Commit(S)
  /\ Config

\* The caller calls the unsubscribe function subscription() returned.
Unsubscribe ==
  /\ sub.pc # "idle"
  /\ \E S \in {unsubscribe(Emit(Store, Event("unsubscribe", 0)))} : Commit(S)
  /\ Config

Next ==
  \/ \E type \in {"query", "mutation"}, input \in CallInputs : Call(type, input)
  \/ \E r \in 1 .. Len(reqs) : \E a \in Answers(reqs[r]) : TransportAnswer(r, a)
  \/ \E r \in 1 .. Len(reqs) : ExecuteReturn(r)
  \/ \E r \in 1 .. Len(reqs) : Settle(r)
  \/ \E r \in 1 .. Len(reqs) : Cancel(r)
  \/ Subscribe
  \/ \E s \in 1 .. Len(onces) : OnceContinue(s)
  \/ SubContinue
  \/ TimerFire
  \/ Unsubscribe

Spec == Init /\ [][Next]_vars

\* The steps the event loop and the transport take on their own: the
\* transport answers a request, a queued promise callback runs, a timer
\* that was set fires.
Progress ==
  \/ \E r \in 1 .. Len(reqs) : \E a \in Answers(reqs[r]) : TransportAnswer(r, a)
  \/ \E r \in 1 .. Len(reqs) : ExecuteReturn(r)
  \/ \E r \in 1 .. Len(reqs) : Settle(r)
  \/ \E s \in 1 .. Len(onces) : OnceContinue(s)
  \/ SubContinue
  \/ TimerFire

\* The subscription loop alone.
NextSub ==
  \/ Subscribe
  \/ Progress
  \/ Unsubscribe

\* The loop under the scheduling of the event loop: it keeps taking the
\* steps that are ready.  One loop has at most one step ready at a time, so
\* weak fairness of their disjunction is fairness of each.  The caller's
\* calls (Subscribe, Unsubscribe) are under no fairness.
\* Both global hooks are configured: a hook that is configured may do
\* nothing, so this keeps every behaviour of a client without them.
LiveInit == Init /\ opts = [onSuccess |-> TRUE, onError |-> TRUE]

LiveSpec == LiveInit /\ [][NextSub]_vars /\ WF_vars(Progress)

\* The loop after n consecutive failed cycles, when the n-th retry timer has
\* fired and issued request n + 1 (n = 0: right after subscription()): the
\* state Spec reaches there, the closures of the failed cycles collected.
AfterFailures(n) ==
  /\ requestCounter = n + 1
  /\ reqs = [r \in 1 .. n + 1 |->
               IF r <= n THEN DeadRequest
               ELSE NewRequest("subscription", SubPath, InitialInput)]
  /\ onces = [s \in 1 .. n + 1 |->
                IF s <= n THEN DeadOnce
                ELSE [NewOnce(SubPath, InitialInput) EXCEPT
                        !.currentRequest = n + 1, !.pc = "await"]]
  /\ sub = [pc |-> "await", path |-> SubPath, stopped |-> FALSE,
            currentPromise |-> n + 1, awaiting |-> n + 1,
            attemptIndex |-> n, input |-> InitialInput,
            delay |-> retryDelay(n)]
  /\ ev = IF n = 0 THEN <<Event("fetch", 1)>>
          ELSE <<Event("timer", 0), Event("fetch", n + 1)>>

BackoffInit ==
  /\ AC \in BOOLEAN
  /\ opts \in [onSuccess : BOOLEAN, onError : BOOLEAN]
  /\ \E n \in 0 .. MaxAttempt - 1 : AfterFailures(n)

\* A loop deep in its backoff: the steps of the event loop and the caller's
\* unsubscribe().
BackoffNext ==
  \/ Progress
  \/ Unsubscribe

BackoffSpec == BackoffInit /\ [][BackoffNext]_vars

\* The request builder alone: request({type, input, path}) is called for
\* every procedure type (by query, mutation or subscriptionOnce) and every
\* kind of input.
BuildRequest(type, input) ==
  /\ Len(reqs) < MaxReq
  /\ \E S \in {request(Store, type,
                        IF type = "subscription" THEN SubPath ELSE CallPath,
                        input)} : Commit(S)
  /\ Config

BuilderNext ==
  \E type \in ProcedureType, input \in BuilderInputs : BuildRequest(type, input)

BuilderSpec == Init /\ [][BuilderNext]_vars

\* ---------------------------------------------------------------- properties

Requests == 1 .. Len(reqs)

\* The requests a step leaves in place (neither new nor collected by it).
Kept == {r \in Requests : reqs'[r].pc # "collected"}

\* C1: once unsubscribe() has been called, options.onData and
\* options.onError are never invoked again.
C1_SilentAfterUnsubscribe ==
  [][sub.stopped => ~(Called("onData") \/ Called("onError"))']_vars

\* C2: after unsubscribe() the loop issues no new request and its reference
\* to the current request stays cleared (stopped implies currentPromise
\* is null in every later state).
C2_NoReentryAfterUnsubscribe ==
  [][sub.stopped =>
       /\ sub.currentPromise = 0
       /\ sub.currentPromise' = 0
       /\ ~Called("fetch")']_vars

\* C3: a request whose cancel() was called before it settled never resolves
\* with data.
C3_CancelledNeverResolves ==
  \A r \in Requests : reqs[r].aborted => reqs[r].promise.state # "resolved"

\* C4: a cancel() of a request whose settled flag is true raises no abort
\* signal, sets no aborted flag and leaves the settlement as it was.
C4_CancelAfterSettleIsNoOp ==
  [][\A r \in Kept :
       (CalledOn("cancel", r))' /\ reqs[r].settled =>
         /\ ~(CalledOn("abort", r))'
         /\ reqs'[r].signal = reqs[r].signal
         /\ reqs'[r].raised = reqs[r].raised
         /\ reqs'[r].aborted = reqs[r].aborted
         /\ reqs'[r].promise = reqs[r].promise]_vars

\* C4 witness: cancel() has just been called on a settled request that has
\* an abort signal, and the signal is not raised.
C4_Witness ==
  \E r \in Requests :
    /\ CalledOn("cancel", r)
    /\ reqs[r].settled
    /\ reqs[r].signal = "idle"
    /\ ~reqs[r].aborted

\* C5: the abort signal of a request is never raised after the HTTP exchange
\* of that request (fetch and the reading of the body) has completed.
C5_NoAbortAfterExchange ==
  [][\A r \in Requests :
       reqs[r].pc # "fetching" => ~(CalledOn("abort", r))']_vars

\* C6: cancel() before settlement is idempotent: the first call sets the
\* aborted flag and raises the request's abort signal, once; every further
\* call leaves flag and signal as they are and raises nothing.
C6_CancelIdempotent ==
  [][\A r \in 1 .. Len(reqs') :
       reqs'[r].pc # "collected" =>
         /\ reqs'[r].raised <= 1
         /\ reqs'[r].aborted =>
              /\ reqs'[r].signal # "idle"
              /\ AC => reqs'[r].raised = 1
         /\ ~reqs'[r].aborted => reqs'[r].raised = 0
         /\ (r <= Len(reqs) /\ reqs[r].aborted /\ (CalledOn("cancel", r))') =>
              /\ ~(CalledOn("abort", r))'
              /\ reqs'[r].aborted = reqs[r].aborted
              /\ reqs'[r].signal = reqs[r].signal
              /\ reqs'[r].raised = reqs[r].raised
              /\ reqs'[r].promise = reqs[r].promise]_vars

\* C6 witness: a second cancel() before settlement, on a request whose
\* signal was raised by the first.
C6_Witness ==
  \E r \in Requests :
    /\ CalledOn("cancel", r)
    /\ ~CalledOn("abort", r)
    /\ ~reqs[r].settled
    /\ reqs[r].aborted
    /\ reqs[r].raised = 1

\* The resolve / reject calls the last step made for request r.
Settlements(r) ==
  Cardinality({i \in 1 .. Len(ev) :
                 ev[i].id = r /\ ev[i].op \in {"resolve", "reject"}})

\* C7: a request settles once: the step that sets the settled flag fires
\* exactly one of resolve / reject, no other step fires either, and a
\* settled request stays settled with the same outcome.
C7_SettlesExactlyOnce ==
  [][\A r \in Kept :
       /\ reqs[r].settled =>
            /\ reqs'[r].settled
            /\ reqs'[r].promise = reqs[r].promise
            /\ Settlements(r)' = 0
       /\ ~reqs[r].settled /\ reqs'[r].settled => Settlements(r)' = 1
       /\ ~reqs'[r].settled =>
            /\ Settlements(r)' = 0
            /\ reqs'[r].promise.state = "pending"
       /\ reqs'[r].settled =>
            reqs'[r].promise.state \in {"resolved", "rejected"}]_vars

\* C7 witness: a request that was cancelled while in flight has just settled.
C7_Witness ==
  \E r \in Requests :
    /\ reqs[r].aborted
    /\ reqs[r].settled
    /\ Settlements(r) = 1

\* The error payload of the data model's Failure Envelope with statusCode 408.
Shape408 == Some([message |-> "conflict", statusCode |-> Some(408)])

\* C8: when the request of a subscriptionOnce that was not cancelled is
\* answered with {ok: false, error: {message, statusCode: 408}},
\* subscriptionOnce issues one more request with the same path and input,
\* does not reject its promise, and the loop sees no failure.
C8_ReconnectOnError408 ==
  [][\A s \in 1 .. Len(onces) :
       (/\ onces[s].pc = "await"
        /\ ~onces[s].stopped
        /\ reqs[onces[s].currentRequest].promise.state = "rejected"
        /\ reqs[onces[s].currentRequest].promise.error[1].shape = Shape408
        /\ \/ onces'[s].pc # "await"
           \/ onces'[s].currentRequest # onces[s].currentRequest)
       => /\ Len(reqs') = Len(reqs) + 1
          /\ reqs'[Len(reqs')].type = "subscription"
          /\ reqs'[Len(reqs')].path = onces[s].path
          /\ reqs'[Len(reqs')].input = onces[s].input
          /\ onces'[s].promise.state = "pending"
          /\ ~Called("onError")'
          /\ sub'.attemptIndex = sub.attemptIndex]_vars

\* C9: a query or mutation that was not cancelled resolves with
\* envelope.data exactly when the transport returned a Success Envelope;
\* on a Failure Envelope it rejects with a Client Error whose message is
\* envelope.error.message and whose shape is envelope.error; when the
\* transport threw or the body did not parse it rejects with a Client Error
\* that carries the underlying error and no shape.
C9_CallOutcome ==
  \A r \in DirectCalls :
    reqs[r].settled /\ ~reqs[r].aborted =>
      LET a == reqs[r].answer[1]
          p == reqs[r].promise IN
      /\ (p.state = "resolved") = (a.kind = "json" /\ a.body[1].ok)
      /\ p.state = "resolved" => p.data = a.body[1].data
      /\ p.state # "resolved" =>
           /\ p.state = "rejected"
           /\ IF a.kind = "json"
                THEN /\ p.error[1].message = a.body[1].error[1].message
                     /\ p.error[1].shape = a.body[1].error
                     /\ p.error[1].originalError = None
                ELSE /\ p.error[1].originalError # None
                     /\ p.error[1].shape = None

\* C9 witness: a mutation answered with {ok: false, error: {message:
\* "conflict", statusCode: 409}} has rejected with shape.statusCode 409.
C9_Witness ==
  \E r \in DirectCalls :
    /\ reqs[r].type = "mutation"
    /\ reqs[r].settled
    /\ ~reqs[r].aborted
    /\ reqs[r].answer = Some(JsonAnswer(FailureEnvelope(None, Some(409))))
    /\ reqs[r].promise.error[1].message = "conflict"
    /\ reqs[r].promise.error[1].shape[1].statusCode = Some(409)

\* The inputs a cycle of the loop can carry.
LoopInputs == {InitialInput} \cup {nextInput(Some(d)) : d \in Data}

\* The k-th request, issued for input i by a loop that is not stopped, has
\* rejected with an error that is not the 408 reconnect signal.
FailedCycle(k, i) ==
  /\ Len(reqs) = k
  /\ sub.pc = "await"
  /\ ~sub.stopped
  /\ sub.input = i
  /\ onces[sub.awaiting].pc = "await"
  /\ onces[sub.awaiting].currentRequest = k
  /\ reqs[k].promise.state = "rejected"
  /\ ~isReconnect(reqs[k].promise.error[1])

\* The retry timer has fired and issued request k + 1 for input i.
Retried(k, i) ==
  /\ Len(reqs) > k
  /\ Called("timer")
  /\ CalledOn("fetch", k + 1)
  /\ reqs[k + 1].type = "subscription"
  /\ reqs[k + 1].input = i

\* C10: as long as unsubscribe() is not called, every failed cycle, after
\* any number of failures before it, is followed by a new request for the
\* same input once the retry timer fires (while the model's request budget
\* MaxReq lasts).
C10_RetriesForever ==
  \A k \in 1 .. MaxReq - 1 : \A i \in LoopInputs :
    FailedCycle(k, i) ~> (sub.stopped \/ Retried(k, i))

\* C10 witness: after two consecutive failures the timer has fired and a
\* third request is in flight.
C10_Witness ==
  /\ ~sub.stopped
  /\ sub.attemptIndex = 2
  /\ Retried(2, InitialInput)

\* The requests of the loop, and those of them that have not settled.
LoopRequests == {r \in Requests : reqs[r].type = "subscription"}

Unsettled == {r \in LoopRequests : ~reqs[r].settled}

\* The retry timers of the loop that are set and have not fired.
PendingTimers == IF sub.pc = "timer" THEN 1 ELSE 0

\* C11: the cycles of one loop are sequential: at most one request of the
\* loop is unsettled, an unsettled request and a pending retry timer never
\* exist together, at most one subscriptionOnce awaits, and every step that
\* issues a request of the loop (first cycle, 408 reconnect, next cycle,
\* backoff retry) starts from a state in which all its requests have settled.
C11_CyclesSequential ==
  [][/\ (Cardinality(Unsettled) + PendingTimers <= 1)'
     /\ Cardinality({s \in 1 .. Len(onces') : onces'[s].pc = "await"}) <= 1
     /\ \A r \in 1 .. Len(reqs') :
          (CalledOn("fetch", r))' /\ reqs'[r].type = "subscription" =>
            /\ Unsettled = {}
            /\ PendingTimers' = 0
            /\ Unsettled' = {r}]_vars

\* C11 witness: the 408 reconnect of subscriptionOnce has just issued the
\* second request, after the first one settled.
C11_Witness ==
  /\ Len(onces) = 1
  /\ onces[1].currentRequest = 2
  /\ CalledOn("fetch", 2)
  /\ reqs[1].settled
  /\ Unsettled = {2}

\* The method the wire contract gives a procedure type.
Method(type) ==
  CASE type = "query" -> "GET"
    [] type = "mutation" -> "POST"
    [] type = "subscription" -> "PATCH"

\* C12: for every procedure type and every input (absent, null, a value)
\* the built request has the method of its type; a query carries the
\* ?input= parameter, holding the encoded JSON of the serialized input,
\* exactly when its input is not absent, and has no body; a mutation and a
\* subscription have the url base/path and the JSON body
\* {input: serialize(input)}, an absent input being left unserialized.
C12_RequestBuilder ==
  \A r \in Requests :
    reqs[r].pc # "collected" =>
      LET o == reqs[r].reqOpts
          i == reqs[r].input IN
      /\ o.method = Method(reqs[r].type)
      /\ o.url.base = "url"
      /\ o.url.path = reqs[r].path
      /\ reqs[r].type = "query" =>
           /\ o.body = None
           /\ (o.url.query # None) = (i # None)
           /\ i # None =>
                o.url.query =
                  Some(<<"input",
                         encodeURIComponent(JSONstringify(serialize(i)))>>)
      /\ reqs[r].type # "query" =>
           /\ o.url.query = None
           /\ o.body = Some(JSONstringifyObject(IF i = None THEN None
                                                 ELSE serialize(i)))

\* How often the last step called the global hook op for request r.
HookCalls(op, r) ==
  Cardinality({i \in 1 .. Len(ev) : ev[i] = Event(op, r)})

\* The steps in which executeRequest of r returns, and its result.
Returns(r) == reqs[r].pc = "answered" /\ reqs'[r].pc = "returned"

\* C13: whenever executeRequest returns {ok: false, error}, for an error
\* of the transport as for a failure envelope, it has called the configured
\* opts.onError exactly once.
C13_ErrorHookOnEveryFailure ==
  [][\A r \in Requests :
       Returns(r) /\ ~reqs'[r].result[1].ok /\ opts.onError =>
         HookCalls("opts.onError", r)' = 1]_vars

\* C14: one call of executeRequest calls at most one of opts.onSuccess and
\* opts.onError, at most once; opts.onSuccess only when the envelope says
\* ok; and no step other than the return of executeRequest calls them.
C14_AtMostOneHook ==
  [][\A r \in Kept :
       /\ HookCalls("opts.onSuccess", r)' + HookCalls("opts.onError", r)' <= 1
       /\ HookCalls("opts.onSuccess", r)' = 1 =>
            /\ reqs[r].answer[1].kind = "json"
            /\ reqs[r].answer[1].body[1].ok
            /\ reqs'[r].result[1].ok
       /\ ~Returns(r) =>
            HookCalls("opts.onSuccess", r)' + HookCalls("opts.onError", r)' = 0]_vars

\* C14 witness: executeRequest has just returned a failure envelope's error
\* on a client with both hooks configured, and called neither.
C14_Witness ==
  \E r \in Requests :
    /\ opts.onSuccess /\ opts.onError
    /\ reqs[r].pc = "returned"
    /\ ~reqs[r].result[1].ok
    /\ reqs[r].answer[1].kind = "json"
    /\ ev = <<>>

\* The result executeRequest returned for request r is one of the two
\* tagged shapes, decided by the transport's answer.
TaggedResult(r) ==
  LET a == reqs[r].answer[1]
      res == reqs[r].result[1] IN
  IF a.kind = "json" /\ a.body[1].ok
    THEN res.ok /\ res.data = a.body[1].data /\ res.error = None
    ELSE /\ ~res.ok
         /\ res.data = None
         /\ res.error # None
         /\ res.error[1].message \in {"conflict", "Network request failed",
                                      "Aborted", "Unexpected token"}
         /\ (a.kind = "json") = (res.error[1].json # None)
         /\ (a.kind # "json") = (res.error[1].originalError # None)

\* C15: executeRequest lets no exception escape: every request the
\* transport has answered (success envelope, failure envelope, fetch threw,
\* abort, body that does not parse or deserialize) gets a tagged result, a
\* request past the answer is never left without one, and it then settles.
C15_NoExceptionEscapes ==
  /\ [](\A r \in Requests :
          /\ reqs[r].pc \in {"fetching", "answered", "returned", "settled",
                              "collected"}
          /\ reqs[r].pc \in {"returned", "settled"} => TaggedResult(r))
  /\ \A k \in 1 .. MaxReq :
       (Len(reqs) >= k /\ reqs[k].pc = "answered") ~>
         (/\ Len(reqs) >= k
          /\ reqs[k].settled
          /\ reqs[k].pc \in {"settled", "collected"})

\* C15 witness: a request whose body did not parse has rejected with a
\* Client Error that carries the underlying error.
C15_Witness ==
  \E r \in Requests :
    /\ reqs[r].answer = Some(BadJsonAnswer)
    /\ reqs[r].settled
    /\ reqs[r].promise.state = "rejected"
    /\ reqs[r].promise.error[1].originalError # None

\* The steps in which exec of the loop resumes after its await, and what
\* the awaited subscriptionOnce gave it.
LoopResumes ==
  /\ sub.pc = "await"
  /\ onces[sub.awaiting].promise.state # "pending"
  /\ sub'.awaiting # sub.awaiting

Awaited == onces[sub.awaiting].promise.state

\* C16: in a loop that was not unsubscribed attemptIndex counts the failed
\* cycles since the last success (or the start): it starts at 0, a failure
\* that reaches the loop adds exactly 1 and is reported to onError, a
\* success sets it to 0 in the run that calls onData, and no other step
\* (a 408 reconnect of subscriptionOnce among them) changes it; it is never
\* negative.
C16_AttemptIndexCounts ==
  /\ [](sub.attemptIndex >= 0 /\ (sub.pc = "idle" => sub.attemptIndex = 0))
  /\ [][~sub.stopped =>
          /\ LoopResumes /\ Awaited = "rejected" =>
               /\ sub'.attemptIndex = sub.attemptIndex + 1
               /\ Called("onError")'
               /\ ~Called("onData")'
          /\ LoopResumes /\ Awaited = "resolved" =>
               /\ sub'.attemptIndex = 0
               /\ Called("onData")'
               /\ ~Called("onError")'
          /\ ~LoopResumes =>
               /\ sub'.attemptIndex = sub.attemptIndex
               /\ ~Called("onData")'
               /\ ~Called("onError")']_vars

\* C16 witness: one cycle has failed, and the retry was told to reconnect
\* (408): the reconnect request is in flight and attemptIndex is still 1.
C16_Witness ==
  /\ ~sub.stopped
  /\ sub.attemptIndex = 1
  /\ Len(onces) = 2
  /\ onces[2].currentRequest = 3
  /\ CalledOn("fetch", 3)

\* min(1000 * 2^k, 30000)
CappedBackoff(k) ==
  IF 1000 * 2 ^ k <= 30000 THEN 1000 * 2 ^ k ELSE 30000

\* C17: retryDelay(0) is 0 and retryDelay(n) is min(1000 * 2^n, 30000) from
\* n = 1 on; the retry after the k-th consecutive failure is scheduled with
\* the delay of the incremented attemptIndex k: 2000, 4000, 8000, 16000,
\* then 30000 for good; the delay never decreases with k, is never above
\* 30000 and never 0.
C17_BackoffDelays ==
  /\ [](/\ retryDelay(0) = 0
        /\ \A n \in 1 .. MaxAttempt : retryDelay(n) = CappedBackoff(n)
        /\ sub.pc = "timer" =>
             LET k == sub.attemptIndex IN
             /\ k >= 1
             /\ sub.delay = CappedBackoff(k)
             /\ k <= 4 => sub.delay = <<2000, 4000, 8000, 16000>>[k]
             /\ k >= 5 => sub.delay = 30000
             /\ sub.delay > 0
             /\ sub.delay <= 30000
             /\ k >= 2 => sub.delay >= CappedBackoff(k - 1))
  /\ [][sub.pc # "timer" /\ sub'.pc = "timer" =>
          /\ sub'.attemptIndex = sub.attemptIndex + 1
          /\ sub'.delay = retryDelay(sub.attemptIndex + 1)]_vars

\* C17 witness: the fifth consecutive failure has scheduled its retry after
\* 30000 ms (1000 * 2^5 is 32000).
C17_Witness ==
  /\ sub.pc = "timer"
  /\ sub.attemptIndex = 5
  /\ sub.delay = 30000
  /\ Called("onError")

\* The requests of the loop the last step issued.
Issued == {r \in LoopRequests : CalledOn("fetch", r)}

\* C18: the cursor of the loop moves on success only.  The first request
\* carries initialInput; when a cycle succeeds with result r, onData is
\* called once and the same run, with no timer, issues the next request
\* with input nextInput(r); when a cycle fails nothing is issued before the
\* timer, and the timer's request carries the input of the failed cycle.
\* Every request carries the loop's cursor, which is initialInput or
\* nextInput of the last successful result.
C18_CursorAdvancesOnSuccess ==
  [][/\ \A r \in Issued' : reqs'[r].input = sub'.input
     /\ sub'.input \in LoopInputs
     /\ sub.pc = "idle" /\ sub'.pc # "idle" =>
          /\ Cardinality(Issued') = 1
          /\ sub'.input = InitialInput
     /\ LoopResumes /\ Awaited = "resolved" =>
          /\ HookCalls("onData", 0)' = 1
          /\ ~Called("timer")'
          /\ sub'.pc = "await"
          /\ Cardinality(Issued') = 1
          /\ sub'.input = nextInput(onces[sub.awaiting].promise.data)
     /\ LoopResumes /\ Awaited = "rejected" =>
          /\ Issued' = {}
          /\ sub'.input = sub.input
          /\ ~sub.stopped => sub'.pc = "timer"
     /\ sub.pc = "timer" /\ sub'.pc # "timer" =>
          /\ Called("timer")'
          /\ Cardinality(Issued') = 1
          /\ sub'.input = sub.input
     /\ sub.pc # "idle" /\ ~(LoopResumes /\ Awaited = "resolved") =>
          sub'.input = sub.input]_vars

\* C18 witness: two cycles have ended, the second with data 2, and the run
\* that called onData has issued the third request with input nextInput(2).
C18_Witness ==
  /\ Issued = {3}
  /\ Len(onces) = 3
  /\ Called("onData")
  /\ ~Called("timer")
  /\ reqs[3].input = nextInput(Some(2))

\* subscriptionOnce s resumes after its request was rejected with the 408
\* reconnect signal.
Resumes408(s) ==
  /\ onces[s].pc = "await"
  /\ reqs[onces[s].currentRequest].promise.state = "rejected"
  /\ isReconnect(reqs[onces[s].currentRequest].promise.error[1])
  /\ onces'[s] # onces[s]

\* C19: a subscriptionOnce whose cancel() was called (by unsubscribe)
\* issues no further request: none of the requests a later step issues is
\* its own, and when the 408 reconnect signal of its cancelled request
\* is processed, whether the answer came before or after the cancel(), no
\* request is issued at all.
C19_NoReconnectAfterCancel ==
  [][\A s \in 1 .. Len(onces) :
       onces[s].stopped =>
         /\ onces'[s].currentRequest \notin Issued'
         /\ onces'[s].currentRequest \in {onces[s].currentRequest, 0}
         /\ Resumes408(s) =>
              /\ ~Called("fetch")'
              /\ Len(reqs') = Len(reqs)
              /\ onces'[s].pc # "await"]_vars

\* C19 witness: a cancelled subscriptionOnce has processed the 408 answer
\* of its request and returned without a new request.
C19_Witness ==
  \E s \in 1 .. Len(onces) :
    /\ onces[s].stopped
    /\ onces[s].pc = "returned"
    /\ onces[s].promise.state = "pending"
    /\ onces[s].currentRequest = Len(reqs)
    /\ reqs[Len(reqs)].promise.state = "rejected"
    /\ isReconnect(reqs[Len(reqs)].promise.error[1])

\* The loop was unsubscribed and the transport has rejected the request of
\* the cycle it awaits because of the raised abort signal.
AbortedCycle ==
  /\ sub.stopped
  /\ sub.pc = "await"
  /\ reqs[onces[sub.awaiting].currentRequest].answer = Some(AbortAnswer)

\* The loop has ended: no request in flight, no timer set.
Quiescent ==
  /\ sub.pc = "done"
  /\ Unsettled = {}
  /\ PendingTimers = 0

\* C20: when unsubscribe() is called while the request of a cycle is in
\* flight, an AbortController is configured and the transport rejects the
\* call for the abort, the loop ends silently: from then on onData and
\* onError are not called, attemptIndex is not incremented, no timer is set
\* and no request is issued, and the loop comes to rest with no request in
\* flight and no timer pending.
C20_AbortEndsLoopSilently ==
  /\ [][AbortedCycle \/ (sub.stopped /\ Quiescent) =>
          /\ ~Called("onData")'
          /\ ~Called("onError")'
          /\ ~Called("fetch")'
          /\ sub'.attemptIndex = sub.attemptIndex
          /\ sub'.pc # "timer"
          /\ (AbortedCycle \/ (sub.stopped /\ Quiescent))']_vars
  /\ [](AbortedCycle => AC)
  /\ AbortedCycle ~> Quiescent

\* C20 witness: after unsubscribe() the transport rejected the aborted
\* request, and the rejection has come through subscriptionOnce to the loop.
C20_Witness ==
  /\ AbortedCycle
  /\ AC
  /\ onces[sub.awaiting].promise.state = "rejected"
  /\ onces[sub.awaiting].promise.error[1].originalError = Some("Aborted")

====
